---------------------------- MODULE Spec2Model ----------------------------
(***************************************************************************)
(* Model of the animated scene graph and skinning engine of src/core.py:   *)
(* KeyFrames / TransformKeyFrames (time-keyed interpolation), Node and     *)
(* SkinningControlNode (recursive draw), TexturedPhongMeshSkinned (bone    *)
(* matrix assembly) and load_textured_phong_mesh_skinned (per-vertex bone  *)
(* weight selection).                                                      *)
(*                                                                         *)
(* Numbers.  Times are integer ticks.  Keyframe values are tuples of       *)
(* integers; an interpolation fraction f is held as the integer f*One,     *)
(* One being a common multiple of every possible time delta, and the       *)
(* values stored at keyframes are multiples of One, so that every division *)
(* of the code is exact in the model.  Floating point rounding is not      *)
(* modelled.                                                               *)
(*                                                                         *)
(* Matrices.  A 4x4 affine matrix of the code is modelled by a 2D affine   *)
(* matrix <<a, b, c, d, tx, ty>> standing for                              *)
(*        | a b tx |                                                       *)
(*        | c d ty |                                                       *)
(*        | 0 0 1  |                                                       *)
(* with the matrix product computed entry by entry.  Translations,         *)
(* quarter-turn rotations and non-uniform scales do not commute, so the    *)
(* order of every product of the code is observable.                       *)
(***************************************************************************)
EXTENDS Integers, Sequences, FiniteSets, TLC

VARIABLES
    \* ---- KeyFrames / TransformKeyFrames objects under evaluation
    kf,              \* the KeyFrames object (NoKeyFrames before construction)
    tkf,             \* the TransformKeyFrames object (NoTransform before)
    called,          \* TRUE once value() has been called
    arg_time,        \* the time argument of the last value() call
    result,          \* what the last value() call returned
    built,           \* the class whose constructor was called ("": none yet)
    arg_lens,        \* len() of each positional argument of that call
                     \* (-1 for None)
    raised,          \* the exception the constructor raised ("": none)
    \* ---- the scene graph (object 0 is the Viewer, itself a Node)
    kinds,           \* object -> "Node", "SkinningControlNode" or
                     \*           "TexturedPhongMeshSkinned"
    children,        \* node -> its children list
    transform,       \* node -> self.transform
    keyframes,       \* skinning node -> self.keyframes (NoTransform: None)
    world_transform, \* skinning node -> self.world_transform
    bone_nodes,      \* mesh -> self.bone_nodes
    bone_offsets,    \* mesh -> self.bone_offsets
    \* ---- the frame driver
    clock,           \* what glfw.get_time() returned last
    frame,           \* number of the frame being drawn (0 before the first)
    stack,           \* the Node.draw calls in progress, innermost last
    \* ---- what the traversal did (observation only)
    gl_uniforms,     \* the uniforms of the last skinned mesh draw call
    last_drawn,      \* the object whose draw the last step entered, if any
    visited_in,      \* skinning node -> the frame of its last draw (0: never)
    recv_model,      \* node -> the model matrix its last draw received
    frame_start_world, \* world_transform as it was when the frame started
    eval_time,       \* skinning node -> the time its keyframes were last
                     \* evaluated at (NoDraw: never)
    draw_calls,      \* the objects whose draw was entered in this frame, in
                     \* call order
    key_calls,       \* the objects whose key_handler the last on_key called,
                     \* in call order (emptied when the next frame starts)
    \* ---- load_textured_phong_mesh_skinned
    scene,           \* what assimpcy.aiImportFile returned
    loader_pc,       \* where the loader is
    nodes,           \* nodes: name -> node lookup
    mesh_id,         \* the loop variable of the first loop over scene.mMeshes
    v_bone,          \* v_bone of the mesh processed last (vertex -> row)
    ld_bone_nodes,   \* the local bone_nodes of the loader
    ld_bone_offsets, \* the local bone_offsets of the loader
    nodes_per_mesh_id, \* mesh index -> the nodes holding that mesh
    ld_children,     \* object built by the loader -> its children list
    drawables,       \* the TexturedPhongMeshSkinned objects built, in order
    returned         \* the list the loader returned, once loader_pc is
                     \* "returned"

kfVars == <<kf, tkf, called, arg_time, result, built, arg_lens, raised>>

sceneVars == <<kinds, children, transform, keyframes, world_transform,
               bone_nodes, bone_offsets, clock, frame, stack, gl_uniforms,
               last_drawn, visited_in, recv_model, frame_start_world,
               eval_time, draw_calls, key_calls>>

loaderVars == <<scene, loader_pc, nodes, mesh_id, v_bone, ld_bone_nodes,
                ld_bone_offsets, nodes_per_mesh_id, ld_children, drawables,
                returned>>

vars == <<kfVars, sceneVars, loaderVars>>

\* placeholders of objects not constructed yet
NoKeyFrames == [times |-> <<>>, values |-> <<>>, interpolate |-> "lerp"]
NoTransform ==
    [translate_keys |-> NoKeyFrames, rotate_keys |-> NoKeyFrames,
     scale_keys |-> NoKeyFrames]

\* last_drawn when the last step entered no draw
NoDraw == 0 - 1

\* the outcome of a division by zero
ZeroDivisionError == <<>>

\* the outcome of indexing an empty tuple
IndexError == <<"IndexError", "tuple index", "out of range">>

\* Python's None where a dict of keys is expected; the times of a dict are
\* not negative
None == {0 - 1}

-----------------------------------------------------------------------------
(* Bounds of the model *)

\* keyframe times and queried times range over 0..MaxTime ticks (queries also
\* one tick below and above)
MaxTime == 3
\* greatest number of (time, value) pairs handed to KeyFrames.__init__
MaxKeys == 3
\* number of frames the render loop draws
MaxFrames == 2
\* glfw.get_time() returns 0..MaxClock ticks
MaxClock == 2
\* the weights a bone gives a vertex range over 1..MaxWeight
MaxWeight == 3

-----------------------------------------------------------------------------
(* Arithmetic helpers *)

Min(a, b) == IF a <= b THEN a ELSE b

RECURSIVE Gcd(_, _)
Gcd(a, b) == IF b = 0 THEN a ELSE Gcd(b, a % b)

RECURSIVE LcmUpTo(_)
LcmUpTo(n) == IF n <= 1 THEN 1 ELSE (LcmUpTo(n - 1) * n) \div Gcd(LcmUpTo(n - 1), n)

\* the fixed-point unit: the fraction 1.0; keyframe values are multiples of it
One == LcmUpTo(MaxTime)

Range(s) == {s[i] : i \in DOMAIN s}

-----------------------------------------------------------------------------
(* transform.py: matrices and blend functions *)

identity == <<1, 0, 0, 1, 0, 0>>

\* numpy's a @ b
MatMul(m, n) ==
    << m[1] * n[1] + m[2] * n[3],
       m[1] * n[2] + m[2] * n[4],
       m[3] * n[1] + m[4] * n[3],
       m[3] * n[2] + m[4] * n[4],
       m[1] * n[5] + m[2] * n[6] + m[5],
       m[3] * n[5] + m[4] * n[6] + m[6] >>

\* translation by the vector v
translate(v) == <<1, 0, 0, 1, v[1], v[2]>>

\* scale by the per-axis factors s
scale(s) == <<s[1], 0, 0, s[2], 0, 0>>

\* rotation matrix of the unit quaternion q about the fixed axis, q being its
\* angle in quarter turns
quaternion_matrix(q) ==
    LET k == q[1] % 4
    IN  CASE k = 0 -> <<1, 0, 0, 1, 0, 0>>
          [] k = 1 -> <<0, -1, 1, 0, 0, 0>>
          [] k = 2 -> <<-1, 0, 0, -1, 0, 0>>
          [] k = 3 -> <<0, 1, -1, 0, 0, 0>>

\* linear blend, called as interpolate(later, earlier, f):
\* earlier + f * (later - earlier), component by component
lerp(point_a, point_b, fraction) ==
    [k \in DOMAIN point_a |->
        point_b[k] + (fraction * (point_a[k] - point_b[k])) \div One]

\* spherical linear blend of two quaternions about the same axis: the angle
\* is blended linearly, same argument order as lerp
quaternion_slerp(q_a, q_b, fraction) ==
    [k \in DOMAIN q_a |->
        q_b[k] + (fraction * (q_a[k] - q_b[k])) \div One]

-----------------------------------------------------------------------------
(* class KeyFrames *)

\* Python's tuple order on the values (lexicographic)
RECURSIVE TupleLess(_, _)
TupleLess(a, b) ==
    IF a = <<>> \/ b = <<>> THEN a = <<>> /\ b # <<>>
    ELSE IF a[1] # b[1] THEN a[1] < b[1]
    ELSE TupleLess(Tail(a), Tail(b))

\* Python's order on (time, value) pairs
PairLess(p, q) == p[1] < q[1] \/ (p[1] = q[1] /\ TupleLess(p[2], q[2]))

\* sorted(): insertion of one pair into a sorted list
RECURSIVE InsertSorted(_, _)
InsertSorted(p, s) ==
    IF s = <<>> THEN <<p>>
    ELSE IF PairLess(s[1], p) THEN <<s[1]>> \o InsertSorted(p, Tail(s))
    ELSE <<p>> \o s

RECURSIVE sorted(_)
sorted(pairs) ==
    IF pairs = <<>> THEN <<>> ELSE InsertSorted(pairs[1], sorted(Tail(pairs)))

\* KeyFrames.__init__: sort the pairs, split them in two lists, keep the blend
KeyFramesInit(time_value_pairs, interpolation_function) ==
    LET pairs == sorted(time_value_pairs)
    IN  [times       |-> [i \in DOMAIN pairs |-> pairs[i][1]],
         values      |-> [i \in DOMAIN pairs |-> pairs[i][2]],
         interpolate |-> interpolation_function]

\* another line 895: empty lists assigned when there is nothing to unpack
KeyFramesInitNeverRaises(time_value_pairs) == ""

\* line 895: self.times, self.values = zip(*keyframes) has nothing to unpack
\* when there are no pairs
KeyFramesInitRaises(time_value_pairs) ==
    IF time_value_pairs = <<>> THEN "ValueError" ELSE ""

\* another line 908: bisect.bisect_right(a, x), the first index i (0-based)
\* with a[i] > x, len(a) when there is none
bisect_right(a, x) == Cardinality({i \in DOMAIN a : a[i] <= x})

\* bisect.bisect_left(a, x): the first index i (0-based) with a[i] >= x,
\* len(a) when there is none
bisect_left(a, x) == Cardinality({i \in DOMAIN a : a[i] < x})

\* the stored blend function applied
Interpolate(fn, a, b, f) ==
    IF fn = "quaternion_slerp" THEN quaternion_slerp(a, b, f) ELSE lerp(a, b, f)

\* a slip in line 912: the fraction measured from the later keyframe
FractionFromLater(self, time, index_closest) ==
    LET T(i) == self.times[i + 1]
        den  == T(index_closest) - T(index_closest - 1)
    IN  IF den = 0 THEN ZeroDivisionError
        ELSE <<((T(index_closest) - time) * One) \div den>>

\* line 912: f = (time - times[i-1]) / (times[i] - times[i-1]), as <<f*One>>
Fraction(self, time, index_closest) ==
    LET T(i) == self.times[i + 1]
        den  == T(index_closest) - T(index_closest - 1)
    IN  IF den = 0 THEN ZeroDivisionError
        ELSE <<((time - T(index_closest - 1)) * One) \div den>>

\* a slip in line 914: the two keyframe values handed over in the other order
BlendEarlierFirst(self, index_closest, f) ==
    Interpolate(self.interpolate,
                self.values[index_closest], self.values[index_closest + 1], f)

\* line 914: interpolate(values[i], values[i-1], f)
Blend(self, index_closest, f) ==
    Interpolate(self.interpolate,
                self.values[index_closest + 1], self.values[index_closest], f)

\* a slip in lines 904-905: the upper clamp returns the first value
KeyFramesValueClampFirst(self, time) ==
    LET n    == Len(self.times)
        T(i) == self.times[i + 1]
        V(i) == self.values[i + 1]
    IN  IF n = 0 THEN IndexError
        ELSE IF time <= T(0) THEN V(0)
        ELSE IF time >= T(n - 1) THEN V(0)
        ELSE LET index_closest == bisect_left(self.times, time)
                 f == Fraction(self, time, index_closest)
             IN  IF f = ZeroDivisionError THEN ZeroDivisionError
                 ELSE Blend(self, index_closest, f[1])

\* KeyFrames.value, with the lists indexed from 0 as in the code; times[0] of
\* line 902 raises when there is no keyframe
KeyFramesValue(self, time) ==
    LET n    == Len(self.times)
        T(i) == self.times[i + 1]
        V(i) == self.values[i + 1]
    IN  IF n = 0 THEN IndexError
        ELSE IF time <= T(0) THEN V(0)
        ELSE IF time >= T(n - 1) THEN V(n - 1)
        ELSE LET index_closest == bisect_left(self.times, time)
                 f == Fraction(self, time, index_closest)
             IN  IF f = ZeroDivisionError THEN ZeroDivisionError
                 ELSE Blend(self, index_closest, f[1])

-----------------------------------------------------------------------------
(* class TransformKeyFrames *)

TransformKeyFramesInit(translate_keys, rotate_keys, scale_keys) ==
    [translate_keys |-> KeyFramesInit(translate_keys, "lerp"),
     rotate_keys    |-> KeyFramesInit(rotate_keys, "quaternion_slerp"),
     scale_keys     |-> KeyFramesInit(scale_keys, "lerp")]

\* lines 923-925: the exception of the first of the three KeyFrames
\* constructors that raises
TransformKeyFramesInitRaises(translate_keys, rotate_keys, scale_keys) ==
    IF KeyFramesInitRaises(translate_keys) # ""
    THEN KeyFramesInitRaises(translate_keys)
    ELSE IF KeyFramesInitRaises(rotate_keys) # ""
    THEN KeyFramesInitRaises(rotate_keys)
    ELSE KeyFramesInitRaises(scale_keys)

\* lines 929-932 when the value of one of the three tracks raises
Propagated(tv, rv, sv, matrix) ==
    IF tv = IndexError \/ rv = IndexError \/ sv = IndexError
    THEN IndexError ELSE matrix

\* a slip in line 932: the product taken as S @ R @ T
TransformKeyFramesValueSRT(self, time) ==
    LET tv == KeyFramesValue(self.translate_keys, time)
        rv == KeyFramesValue(self.rotate_keys, time)
        sv == KeyFramesValue(self.scale_keys, time)
    IN  Propagated(tv, rv, sv,
            MatMul(MatMul(scale(sv), quaternion_matrix(rv)), translate(tv)))

TransformKeyFramesValue(self, time) ==
    LET tv == KeyFramesValue(self.translate_keys, time)
        rv == KeyFramesValue(self.rotate_keys, time)
        sv == KeyFramesValue(self.scale_keys, time)
    IN  Propagated(tv, rv, sv,
            MatMul(MatMul(translate(tv), quaternion_matrix(rv)), scale(sv)))

-----------------------------------------------------------------------------
(* The variables of the scene graph, where no scene is built *)

SceneUnused ==
    /\ kinds = <<>>
    /\ children = <<>>
    /\ transform = <<>>
    /\ keyframes = <<>>
    /\ world_transform = <<>>
    /\ bone_nodes = <<>>
    /\ bone_offsets = <<>>
    /\ clock = 0
    /\ frame = 0
    /\ stack = <<>>
    /\ gl_uniforms = <<>>
    /\ last_drawn = NoDraw
    /\ visited_in = <<>>
    /\ recv_model = <<>>
    /\ frame_start_world = <<>>
    /\ eval_time = <<>>
    /\ draw_calls = <<>>
    /\ key_calls = <<>>

\* the variables of the loader, where nothing is loaded
LoaderUnused ==
    /\ scene = <<>>
    /\ loader_pc = "unused"
    /\ nodes = <<>>
    /\ mesh_id = 0
    /\ v_bone = <<>>
    /\ ld_bone_nodes = <<>>
    /\ ld_bone_offsets = <<>>
    /\ nodes_per_mesh_id = <<>>
    /\ ld_children = <<>>
    /\ drawables = <<>>
    /\ returned = <<>>

-----------------------------------------------------------------------------
(* Evaluation of one KeyFrames object: inputs of KeyFrames.__init__ and     *)
(* KeyFrames.value                                                          *)

\* values stored at keyframes (2-vectors)
KeyValues == {<<0, 0>>, <<One, 0>>, <<0, 2 * One>>}

\* lists of (time, value) pairs in any order, equal times included, and the
\* list of no pair
PairSeqs == UNION {[1..n -> (0..MaxTime) \X KeyValues] : n \in 0..MaxKeys}

\* the times value() is called with
QueryTimes == (0 - 1)..(MaxTime + 1)

InitKeyFrames ==
    /\ kf = NoKeyFrames
    /\ tkf = NoTransform
    /\ called = FALSE
    /\ arg_time = 0
    /\ result = <<>>
    /\ built = ""
    /\ arg_lens = <<>>
    /\ raised = ""
    /\ SceneUnused
    /\ LoaderUnused

\* kf = KeyFrames(time_value_pairs)
KeyFramesConstruct ==
    /\ built = ""
    /\ built' = "KeyFrames"
    /\ \E pairs \in PairSeqs :
          /\ arg_lens' = <<Len(pairs)>>
          /\ raised' = KeyFramesInitRaises(pairs)
          /\ kf' = IF raised' = "" THEN KeyFramesInit(pairs, "lerp") ELSE kf
    /\ UNCHANGED <<tkf, called, arg_time, result>>
    /\ UNCHANGED sceneVars
    /\ UNCHANGED loaderVars

\* kf.value(time)
KeyFramesCallValue ==
    /\ kf # NoKeyFrames
    /\ called' = TRUE
    /\ \E time \in QueryTimes :
          /\ arg_time' = time
          /\ result' = KeyFramesValue(kf, time)
    /\ UNCHANGED <<kf, tkf, built, arg_lens, raised>>
    /\ UNCHANGED sceneVars
    /\ UNCHANGED loaderVars

NextKeyFrames == KeyFramesConstruct \/ KeyFramesCallValue

SpecKeyFrames == InitKeyFrames /\ [][NextKeyFrames]_vars

-----------------------------------------------------------------------------
(* Evaluation of one TransformKeyFrames object.  Each track is a dict       *)
(* {time: value} as the loader's conv() builds it; the three tracks have    *)
(* their own numbers of keys and their own time domains.                    *)

\* the value each track stores at key time t
TranslateAt(t) == <<One * ((t * t) % 3), One * t>>
RotateAt(t)    == <<One * t + 1>>
ScaleAt(t)     == <<One * t + 1, One * ((t + 1) % 2) + 2>>

\* the key sets of a track, the set of no key among them
KeyTimeSets == {ts \in SUBSET (0..MaxTime) : Cardinality(ts) \in 0..MaxKeys}

\* what SkinningControlNode.__init__ gets as *keys: nothing, the (None,) of
\* make_nodes for a node without animation channel, or the three dicts of a
\* channel (given by their key sets; {} is an empty dict)
NodeKeys == {<<>>, <<None>>} \cup ({{}, {1}, {0, 2}} \X {{}, {1}, {0, 2}} \X {{}, {1}, {0, 2}})

\* dict.items() of a dict given as a set of (time, value) pairs, latest key
\* first
RECURSIVE Items(_)
Items(d) ==
    IF d = {} THEN <<>>
    ELSE LET p == CHOOSE x \in d : \A y \in d : y[1] <= x[1]
         IN  <<p>> \o Items(d \ {p})

InitTransform ==
    /\ kf = NoKeyFrames
    /\ tkf = NoTransform
    /\ called = FALSE
    /\ arg_time = 0
    /\ result = <<>>
    /\ built = ""
    /\ arg_lens = <<>>
    /\ raised = ""
    /\ SceneUnused
    /\ LoaderUnused

\* tkf = TransformKeyFrames(translate_keys, rotate_keys, scale_keys)
TransformConstruct ==
    /\ built = ""
    /\ built' = "TransformKeyFrames"
    /\ \E tt \in KeyTimeSets, rt \in KeyTimeSets, st \in KeyTimeSets :
          LET translate_keys == Items({<<t, TranslateAt(t)>> : t \in tt})
              rotate_keys    == Items({<<t, RotateAt(t)>> : t \in rt})
              scale_keys     == Items({<<t, ScaleAt(t)>> : t \in st})
          IN  /\ arg_lens' = <<Cardinality(tt), Cardinality(rt),
                                Cardinality(st)>>
              /\ raised' = TransformKeyFramesInitRaises(
                               translate_keys, rotate_keys, scale_keys)
              /\ tkf' = IF raised' = ""
                        THEN TransformKeyFramesInit(
                                 translate_keys, rotate_keys, scale_keys)
                        ELSE tkf
    /\ UNCHANGED <<kf, called, arg_time, result>>
    /\ UNCHANGED sceneVars
    /\ UNCHANGED loaderVars

\* line 982: keys[0] of no positional argument
KeysFirstRaises(keys) == IF keys = <<>> THEN "IndexError" ELSE ""

\* SkinningControlNode(*keys, transform=...), lines 980-983: tkf is the
\* node's self.keyframes, NoTransform standing for None
SkinningControlNodeInit ==
    /\ built = ""
    /\ built' = "SkinningControlNode"
    /\ \E keys \in NodeKeys :
          /\ arg_lens' = [i \in DOMAIN keys |->
                             IF keys[i] = None THEN 0 - 1
                             ELSE Cardinality(keys[i])]
          /\ IF KeysFirstRaises(keys) # ""
             THEN raised' = KeysFirstRaises(keys) /\ tkf' = tkf
             ELSE IF keys[1] = None \/ keys[1] = {}
             THEN raised' = "" /\ tkf' = NoTransform
             ELSE LET translate_keys ==
                          Items({<<t, TranslateAt(t)>> : t \in keys[1]})
                      rotate_keys ==
                          Items({<<t, RotateAt(t)>> : t \in keys[2]})
                      scale_keys ==
                          Items({<<t, ScaleAt(t)>> : t \in keys[3]})
                  IN  /\ raised' = TransformKeyFramesInitRaises(
                                       translate_keys, rotate_keys, scale_keys)
                      /\ tkf' = IF raised' = ""
                                THEN TransformKeyFramesInit(
                                       translate_keys, rotate_keys, scale_keys)
                                ELSE tkf
    /\ UNCHANGED <<kf, called, arg_time, result>>
    /\ UNCHANGED sceneVars
    /\ UNCHANGED loaderVars

\* tkf.value(time)
TransformCallValue ==
    /\ tkf # NoTransform
    /\ called' = TRUE
    /\ \E time \in QueryTimes :
          /\ arg_time' = time
          /\ result' = TransformKeyFramesValue(tkf, time)
    /\ UNCHANGED <<kf, tkf, built, arg_lens, raised>>
    /\ UNCHANGED sceneVars
    /\ UNCHANGED loaderVars

NextTransform ==
    TransformConstruct \/ SkinningControlNodeInit \/ TransformCallValue

SpecTransform == InitTransform /\ [][NextTransform]_vars

-----------------------------------------------------------------------------
(* The scene graph: class Node, class Viewer, class SkinningControlNode and *)
(* class TexturedPhongMeshSkinned                                           *)

Viewer == 0
Objects == 1..4
Root == 1

\* the keys on_key tells apart
Keys == {"SPACE", "R"}

\* a slip in line 991: the parent's matrix stored without the node's own
StoredWorldOfParent(model, self_transform) == model

\* a slip in line 991: the product taken as self.transform @ model
StoredWorldTransformFirst(model, self_transform) ==
    MatMul(self_transform, model)

\* line 991: self.world_transform = model @ self.transform
StoredWorld(model, self_transform) == MatMul(model, self_transform)

\* a slip in line 661: the product taken as offset @ world_transform
BoneMatricesOffsetFirst(self) ==
    [bone_id \in DOMAIN bone_nodes[self] |->
        MatMul(bone_offsets[self][bone_id],
               world_transform[bone_nodes[self][bone_id]])]

\* another policy for line 661: a bone not drawn yet in this frame counts as
\* the identity
BoneMatricesResetUnvisited(self) ==
    [bone_id \in DOMAIN bone_nodes[self] |->
        MatMul(IF visited_in[bone_nodes[self][bone_id]] = frame
               THEN world_transform[bone_nodes[self][bone_id]]
               ELSE identity,
               bone_offsets[self][bone_id])]

\* lines 660-664: the matrices uploaded as bone_matrix[0..], one per bone
BoneMatrices(self) ==
    [bone_id \in DOMAIN bone_nodes[self] |->
        MatMul(world_transform[bone_nodes[self][bone_id]],
               bone_offsets[self][bone_id])]

NodeKind == "Node"
SkinKind == "SkinningControlNode"
MeshKind == "TexturedPhongMeshSkinned"

\* the elements of a set of objects in ascending order
RECURSIVE Ascending(_)
Ascending(S) ==
    IF S = {} THEN <<>>
    ELSE LET o == CHOOSE x \in S : \A y \in S : x <= y
         IN  <<o>> \o Ascending(S \ {o})

\* Scene shapes.  The root is a skinning node added to the viewer; every
\* other object is a skinning node or a skinned mesh, a child of an earlier
\* skinning node; a skinning node may also belong to no tree (parent = itself),
\* as the root of a hierarchy that was never added to the viewer.
KindChoices ==
    {k \in [Objects -> {SkinKind, MeshKind}] :
        k[Root] = SkinKind /\ \E o \in Objects : k[o] = MeshKind}

ParentChoices(k) ==
    {p \in [Objects -> {Viewer} \cup Objects] :
        /\ p[Root] = Viewer
        /\ \A o \in Objects \ {Root} :
              \/ p[o] \in Objects /\ p[o] < o /\ k[p[o]] = SkinKind
              \/ p[o] = o /\ k[o] = SkinKind}

\* the static transform given to the constructor of node o
Local(o) ==
    CASE o = 1 -> <<0, 0 - 1, 1, 0, 1, 0>>
      [] o = 2 -> <<2, 0, 0, 1, 0, 1>>
      [] o = 3 -> <<1, 0, 0, 3, 1, 1>>
      [] OTHER -> <<0, 1, 0 - 1, 0, 0, 2>>

\* the keyframes the loader gives an animated node o
Track(o) ==
    TransformKeyFramesInit(
        Items({<<t, TranslateAt(t)>> : t \in {0, 1 + (o % MaxClock)}}),
        Items({<<t, RotateAt(t)>> : t \in {1, MaxClock}}),
        Items({<<t, ScaleAt(t)>> : t \in {0, MaxClock}}))

\* the ways the skinning nodes of a scene are constructed: each with the
\* identity or with Local(o) as its transform and no keyframes ("identity",
\* "static"), or with Local(o) and keyframes ("animated")
NodeSetups ==
    { [o \in Objects |-> IF o = 2 THEN "identity" ELSE "static"],
      [o \in Objects |-> IF o = 4 THEN "static" ELSE "animated"],
      [o \in Objects |-> IF o = Root THEN "animated"
                         ELSE IF o = 3 THEN "identity" ELSE "static"],
      [o \in Objects |-> IF o = Root THEN "static" ELSE "animated"] }

\* bone.mOffsetMatrix of the bone at position i of a mesh's bone list
Offset(i) == <<1, 0, 0, 2, i, 0>>

\* the bone lists of a mesh over the skinning nodes ns: two bones, or the
\* one there is
BoneLists(ns) ==
    IF Cardinality(ns) = 1 THEN {<<a>> : a \in ns}
    ELSE {<<ab[1], ab[2]>> : ab \in {x \in ns \X ns : x[1] # x[2]}}

NoUniforms == [mesh |-> 0, model |-> identity, bone_matrix |-> <<>>]

Init ==
    /\ kf = NoKeyFrames
    /\ tkf = NoTransform
    /\ called = FALSE
    /\ arg_time = 0
    /\ result = <<>>
    /\ built = ""
    /\ arg_lens = <<>>
    /\ raised = ""
    /\ \E k \in KindChoices :
          /\ kinds = [o \in {Viewer} \cup Objects |->
                         IF o = Viewer THEN NodeKind ELSE k[o]]
          /\ \E p \in ParentChoices(k) :
                children = [o \in {Viewer} \cup Objects |->
                               Ascending({c \in Objects : c # o /\ p[c] = o})]
          /\ \E setup \in NodeSetups :
                /\ transform = [o \in {Viewer} \cup Objects |->
                                   IF o = Viewer \/ setup[o] = "identity"
                                       \/ k[o] = MeshKind
                                   THEN identity ELSE Local(o)]
                /\ keyframes = [o \in Objects |->
                                   IF k[o] = SkinKind /\ setup[o] = "animated"
                                   THEN Track(o) ELSE NoTransform]
          /\ \E bones \in [{o \in Objects : k[o] = MeshKind} ->
                              BoneLists({o \in Objects : k[o] = SkinKind})] :
                /\ bone_nodes = [o \in Objects |->
                                    IF k[o] = MeshKind THEN bones[o] ELSE <<>>]
                /\ bone_offsets = [o \in Objects |->
                                      IF k[o] = MeshKind
                                      THEN [i \in DOMAIN bones[o] |-> Offset(i)]
                                      ELSE <<>>]
    /\ world_transform = [o \in Objects |-> identity]
    /\ clock = 0
    /\ frame = 0
    /\ stack = <<>>
    /\ gl_uniforms = NoUniforms
    /\ last_drawn = NoDraw
    /\ visited_in = [o \in Objects |-> 0]
    /\ recv_model = [o \in {Viewer} \cup Objects |-> identity]
    /\ frame_start_world = [o \in Objects |-> identity]
    /\ eval_time = [o \in Objects |-> NoDraw]
    /\ draw_calls = <<>>
    /\ key_calls = <<>>
    /\ LoaderUnused

\* the innermost Node.draw call in progress
Top == stack[Len(stack)]

\* a slip in line 232: the children visited last to first
AtChildReversed ==
    children[Top.node][Len(children[Top.node]) + 1 - Top.next]

\* line 232: the child the loop of the innermost Node.draw call is at
AtChild == children[Top.node][Top.next]

\* the Node.draw loop of the innermost call moved to its next child
Advanced == [stack EXCEPT ![Len(stack)].next = @ + 1]

\* a slip in line 233: the model matrix handed down unchanged
ChildModelUnchanged == Top.model

\* line 233: the model matrix Node.draw hands to each child
ChildModel == MatMul(Top.model, transform[Top.node])

\* Viewer.run, one iteration of the render loop up to the call of self.draw
\* with identity; the rest of the iteration happens when the draw returns
ViewerRun ==
    /\ stack = <<>>
    /\ frame < MaxFrames
    /\ frame' = frame + 1
    /\ \E current_frame \in clock..MaxClock : clock' = current_frame
    /\ stack' = <<[node |-> Viewer, next |-> 1, model |-> identity]>>
    /\ recv_model' = [recv_model EXCEPT ![Viewer] = identity]
    /\ last_drawn' = Viewer
    /\ frame_start_world' = world_transform
    /\ draw_calls' = <<Viewer>>
    /\ key_calls' = <<>>
    /\ UNCHANGED <<kinds, children, transform, keyframes, world_transform,
                   bone_nodes, bone_offsets, gl_uniforms, visited_in,
                   eval_time>>
    /\ UNCHANGED kfVars
    /\ UNCHANGED loaderVars

\* SkinningControlNode.draw called by the loop of Node.draw, up to its call
\* of super().draw
SkinningControlNodeDraw ==
    /\ stack # <<>>
    /\ Top.next <= Len(children[Top.node])
    /\ kinds[AtChild] = SkinKind
    /\ LET self  == AtChild
           model == ChildModel
       IN  /\ IF keyframes[self] # NoTransform
              THEN \E time \in clock..MaxClock :
                      /\ clock' = time
                      /\ eval_time' = [eval_time EXCEPT ![self] = time]
                      /\ transform' = [transform EXCEPT ![self] =
                             TransformKeyFramesValue(keyframes[self], time)]
              ELSE UNCHANGED <<clock, transform, eval_time>>
           /\ world_transform' = [world_transform EXCEPT ![self] =
                                     StoredWorld(model, transform'[self])]
           /\ stack' = Advanced \o
                           <<[node |-> self, next |-> 1, model |-> model]>>
           /\ recv_model' = [recv_model EXCEPT ![self] = model]
           /\ visited_in' = [visited_in EXCEPT ![self] = frame]
           /\ last_drawn' = self
           /\ draw_calls' = Append(draw_calls, self)
    /\ UNCHANGED <<kinds, children, keyframes, bone_nodes, bone_offsets, frame,
                   gl_uniforms, frame_start_world, key_calls>>
    /\ UNCHANGED kfVars
    /\ UNCHANGED loaderVars

\* TexturedPhongMeshSkinned.draw called by the loop of Node.draw
TexturedPhongMeshSkinnedDraw ==
    /\ stack # <<>>
    /\ Top.next <= Len(children[Top.node])
    /\ kinds[AtChild] = MeshKind
    /\ LET self == AtChild
       IN  /\ gl_uniforms' = [mesh |-> self,
                              model |-> ChildModel,
                              bone_matrix |-> BoneMatrices(self)]
           /\ last_drawn' = self
           /\ draw_calls' = Append(draw_calls, self)
    /\ stack' = Advanced
    /\ UNCHANGED <<kinds, children, transform, keyframes, world_transform,
                   bone_nodes, bone_offsets, clock, frame, visited_in,
                   recv_model, frame_start_world, eval_time, key_calls>>
    /\ UNCHANGED kfVars
    /\ UNCHANGED loaderVars

\* the loop of Node.draw is over: the call returns
NodeDrawReturn ==
    /\ stack # <<>>
    /\ Top.next > Len(children[Top.node])
    /\ stack' = SubSeq(stack, 1, Len(stack) - 1)
    /\ last_drawn' = NoDraw
    /\ UNCHANGED <<kinds, children, transform, keyframes, world_transform,
                   bone_nodes, bone_offsets, clock, frame, gl_uniforms,
                   visited_in, recv_model, frame_start_world, eval_time,
                   draw_calls, key_calls>>
    /\ UNCHANGED kfVars
    /\ UNCHANGED loaderVars

\* hasattr(child, 'key_handler'): Node and its subclasses define it,
\* TexturedPhongMeshSkinned does not
HasKeyHandler(child) == kinds[child] # MeshKind

\* the key_handler calls made for the objects of the list todo and below
\* them, in call order
RECURSIVE KeyHandlerCalls(_)
KeyHandlerCalls(todo) ==
    IF todo = <<>> THEN <<>>
    ELSE IF HasKeyHandler(todo[1])
    THEN <<todo[1]>> \o KeyHandlerCalls(children[todo[1]] \o Tail(todo))
    ELSE KeyHandlerCalls(Tail(todo))

\* a slip in lines 237-239: the children called do not dispatch further
KeyHandlerOfChildrenOnly(self) ==
    <<self>> \o SelectSeq(children[self], HasKeyHandler)

\* lines 235-239: self.key_handler(key) and the calls it makes, in call order
KeyHandler(self) == KeyHandlerCalls(<<self>>)

\* Viewer.on_key for a key pressed or repeated, called from glfw.poll_events
\* between two frames
OnKey ==
    /\ stack = <<>>
    /\ frame > 0
    /\ \E key \in Keys :
          clock' = IF key = "SPACE" THEN 0 ELSE clock
    /\ key_calls' = KeyHandler(Viewer)
    /\ UNCHANGED <<kinds, children, transform, keyframes, world_transform,
                   bone_nodes, bone_offsets, frame, stack, gl_uniforms,
                   last_drawn, visited_in, recv_model, frame_start_world,
                   eval_time, draw_calls>>
    /\ UNCHANGED kfVars
    /\ UNCHANGED loaderVars

Next ==
    \/ ViewerRun
    \/ SkinningControlNodeDraw
    \/ TexturedPhongMeshSkinnedDraw
    \/ NodeDrawReturn
    \/ OnKey

Spec == Init /\ [][Next]_vars

\* One frame only: Viewer.run calls self.draw once, and the draw runs to its
\* end.  The draw is sequential code: a call that has been entered executes
\* its next step, which is what the fairness condition says.
ViewerRunOnce == frame = 0 /\ ViewerRun

\* every shape of the scene, with one way of constructing its nodes (the
\* root static, the others animated) and bone lists that start at the root
\* and ascend
InitDraw ==
    /\ Init
    /\ keyframes[Root] = NoTransform
    /\ transform[Root] = Local(Root)
    /\ \A o \in Objects \ {Root} :
          kinds[o] = SkinKind => keyframes[o] # NoTransform
    /\ \A o \in Objects :
          kinds[o] = MeshKind =>
              /\ bone_nodes[o][1] = Root
              /\ \A i \in 2..Len(bone_nodes[o]) :
                    bone_nodes[o][i - 1] < bone_nodes[o][i]

NextDraw ==
    \/ ViewerRunOnce
    \/ SkinningControlNodeDraw
    \/ TexturedPhongMeshSkinnedDraw
    \/ NodeDrawReturn

SpecDraw ==
    /\ InitDraw
    /\ [][NextDraw]_vars
    /\ WF_vars(SkinningControlNodeDraw \/ TexturedPhongMeshSkinnedDraw
                   \/ NodeDrawReturn)

-----------------------------------------------------------------------------
(* load_textured_phong_mesh_skinned: the node lookup and the first loop     *)
(* over scene.mMeshes, which turns the per-bone weights of a mesh into      *)
(* MAX_VERTEX_BONES (weight, id) entries per vertex.  Weights are integers  *)
(* (the float32 rounding of the dtype is not modelled).                     *)

MAX_VERTEX_BONES == 4
MAX_BONES == 128

\* the names bones have; the nodes of an imported hierarchy are named by
\* the first ones of these
NodeNames == <<"Armature", "Hip", "Leg">>

\* bone.mName of the bone at position b of a mesh's bone list
BoneName(b) == NodeNames[(b % Len(NodeNames)) + 1]

\* the vertices of a mesh
Vertices == {0, 1}

\* len(mesh.mBones) of the meshes
BoneCounts == {2, 5, MAX_BONES + 1}

\* the positions of the bones of a mesh of nb bones whose mWeights may have
\* entries; the other bones of the list influence no vertex
ListedBones(nb) ==
    IF nb <= 5 THEN 0..(nb - 1) ELSE {0, 1, 2, MAX_BONES - 1, MAX_BONES}

\* the listed bone after b, cyclically
NextListed(ls, b) ==
    IF \E x \in ls : x > b
    THEN CHOOSE x \in ls : x > b /\ \A y \in ls : y > b => x <= y
    ELSE CHOOSE x \in ls : \A y \in ls : x <= y

\* A mesh of nb bones: mWeights[b][v] is the weight of the entry bone b has
\* for vertex v, 0 when it has no entry for v.  Bone b weighs w[b] on vertex 0
\* and the weight of the next listed bone on vertex 1.
MeshOf(nb, w) ==
    [mNumVertices |-> Cardinality(Vertices),
     mNumBones    |-> nb,
     mWeights     |-> [b \in ListedBones(nb) |->
                          [v \in Vertices |->
                              IF v = 0 THEN w[b]
                              ELSE w[NextListed(ListedBones(nb), b)]]]]

\* the meshes whose weights range over 0..MaxWeight
RichMeshes ==
    UNION {{MeshOf(nb, w) : w \in [ListedBones(nb) -> 0..MaxWeight]} :
              nb \in BoneCounts}

\* three meshes of few bones, two of two bones and one of three
SmallMeshes ==
    {MeshOf(2, [b \in ListedBones(2) |-> IF b = 0 THEN x ELSE MaxWeight]) :
        x \in {0, 1}}
    \cup {MeshOf(3, [b \in ListedBones(3) |-> MaxWeight])}

\* scene.mMeshes: no mesh, one mesh, or two meshes of few bones
MeshLists ==
    {<<>>}
    \cup {<<m>> : m \in RichMeshes \cup SmallMeshes}
    \cup {<<ms[1], ms[2]>> :
             ms \in {m \in RichMeshes : m.mNumBones = 2} \X SmallMeshes}
    \cup {<<ms[2], ms[1]>> :
             ms \in {m \in RichMeshes : m.mNumBones = 2} \X SmallMeshes}

\* the mesh lists whose meshes have at most n bones
MeshListsUpTo(n) ==
    {ml \in MeshLists : \A i \in DOMAIN ml : ml[i].mNumBones <= n}

\* assimp_node.mMeshes of the node at position i of the hierarchy, when each
\* mesh is held by one node: mesh k by the node at position k + 2, or by the
\* last node
EachHeldOnce(names, ml, i) ==
    Ascending({k - 1 : k \in {x \in DOMAIN ml : Min(x + 1, Len(names)) = i}})

\* assimp_node.mMeshes when the last mesh is held by the first and by the
\* last node of the hierarchy (an instanced mesh), the others by the second
LastHeldTwice(names, ml, i) ==
    IF i = 1 \/ i = Len(names) THEN <<Len(ml) - 1>>
    ELSE [k \in 1..(Len(ml) - 1) |-> k - 1]

\* the imported scenes.  mNodeNames lists the nodes of the hierarchy, the
\* root first, the others its children; mNodeMeshes gives the mMeshes of
\* each.  A hierarchy with a node for every bone name goes with any of the
\* mesh lists; a hierarchy without a node for the last bone name, or one
\* with an instanced mesh, with meshes of few bones.
Scenes ==
    {[mMeshes |-> ml, mNodeNames |-> NodeNames,
      mNodeMeshes |-> [i \in DOMAIN NodeNames |->
                          EachHeldOnce(NodeNames, ml, i)]] : ml \in MeshLists}
    \cup {[mMeshes |-> ml,
           mNodeNames |-> SubSeq(NodeNames, 1, Len(NodeNames) - 1),
           mNodeMeshes |-> [i \in 1..(Len(NodeNames) - 1) |->
                               EachHeldOnce(SubSeq(NodeNames, 1,
                                                   Len(NodeNames) - 1), ml, i)]] :
             ml \in MeshListsUpTo(5)}
    \cup {[mMeshes |-> ml, mNodeNames |-> NodeNames,
           mNodeMeshes |-> [i \in DOMAIN NodeNames |->
                               LastHeldTwice(NodeNames, ml, i)]] :
             ml \in MeshListsUpTo(3) \ {<<>>}}

\* order of the (weight, id) records under numpy's sort(order='weight'): by
\* weight, ties by id
EntryLess(a, b) == a[1] < b[1] \/ (a[1] = b[1] /\ a[2] < b[2])

\* lines 787-791: the row of vertex v before sorting, MAX_BONES entries
\* (weight, id), (0, 0) where bone bone_id has no entry for v; only the first
\* MAX_BONES bones of the mesh are looked at
Row(mesh, v) ==
    [bone_id \in 0..(MAX_BONES - 1) |->
        IF /\ bone_id < mesh.mNumBones
           /\ bone_id \in DOMAIN mesh.mWeights
           /\ mesh.mWeights[bone_id][v] > 0
        THEN <<mesh.mWeights[bone_id][v], bone_id>>
        ELSE <<0, 0>>]

\* the one of the positions a and b (NoDraw for none) whose entry sorts last;
\* of two equal entries the one further back
LaterOf(row, a, b) ==
    IF a = NoDraw THEN b
    ELSE IF b = NoDraw THEN a
    ELSE IF EntryLess(row[b], row[a]) THEN a ELSE b

\* the one of the positions a and b (NoDraw for none) whose entry sorts first
EarlierOf(row, a, b) ==
    IF a = NoDraw THEN b
    ELSE IF b = NoDraw THEN a
    ELSE IF EntryLess(row[b], row[a]) THEN b ELSE a

\* the position, among those of lo..hi that are not taken, of the entry that
\* sorts last (NoDraw for none)
RECURSIVE SortsLast(_, _, _, _)
SortsLast(row, taken, lo, hi) ==
    IF lo = hi THEN (IF lo \in taken THEN NoDraw ELSE lo)
    ELSE LET mid == (lo + hi) \div 2
         IN  LaterOf(row, SortsLast(row, taken, lo, mid),
                          SortsLast(row, taken, mid + 1, hi))

\* the position, among those of lo..hi that are not taken, of the entry that
\* sorts first
RECURSIVE SortsFirst(_, _, _, _)
SortsFirst(row, taken, lo, hi) ==
    IF lo = hi THEN (IF lo \in taken THEN NoDraw ELSE lo)
    ELSE LET mid == (lo + hi) \div 2
         IN  EarlierOf(row, SortsFirst(row, taken, lo, mid),
                            SortsFirst(row, taken, mid + 1, hi))

\* the k entries that sort last, in sorted order
RECURSIVE LastSorted(_, _, _)
LastSorted(row, taken, k) ==
    IF k = 0 THEN <<>>
    ELSE LET i == SortsLast(row, taken, 0, MAX_BONES - 1)
         IN  LastSorted(row, taken \cup {i}, k - 1) \o <<row[i]>>

\* the k entries that sort first, in sorted order
RECURSIVE FirstSorted(_, _, _)
FirstSorted(row, taken, k) ==
    IF k = 0 THEN <<>>
    ELSE LET i == SortsFirst(row, taken, 0, MAX_BONES - 1)
         IN  <<row[i]>> \o FirstSorted(row, taken \cup {i}, k - 1)

\* the sequence s backwards
Reversed(s) == [i \in DOMAIN s |-> s[Len(s) + 1 - i]]

\* a slip in line 794: the slice taken at the front, v_bone[:, :K]
SortAndKeepFirst(row) == FirstSorted(row, {}, MAX_VERTEX_BONES)

\* a slip in line 793: the rows sorted with the high weights first
SortDescendingAndKeep(row) == Reversed(LastSorted(row, {}, MAX_VERTEX_BONES))

\* lines 793-794: v_bone.sort(order='weight') sorts the row, high weights
\* last, and v_bone[:, -MAX_VERTEX_BONES:] keeps its last entries
SortAndKeepLast(row) == LastSorted(row, {}, MAX_VERTEX_BONES)

\* lines 787-794 for one mesh: vertex -> its MAX_VERTEX_BONES entries
VBone(mesh) ==
    [v \in 0..(mesh.mNumVertices - 1) |-> SortAndKeepLast(Row(mesh, v))]

InitLoader ==
    /\ kf = NoKeyFrames
    /\ tkf = NoTransform
    /\ called = FALSE
    /\ arg_time = 0
    /\ result = <<>>
    /\ built = ""
    /\ arg_lens = <<>>
    /\ raised = ""
    /\ SceneUnused
    /\ scene \in Scenes
    /\ loader_pc = "make_nodes"
    /\ nodes = <<>>
    /\ mesh_id = NoDraw
    /\ v_bone = <<>>
    /\ ld_bone_nodes = <<>>
    /\ ld_bone_offsets = <<>>
    /\ nodes_per_mesh_id = <<>>
    /\ ld_children = <<>>
    /\ drawables = <<>>
    /\ returned = <<>>

\* lines 767-781: one SkinningControlNode per assimp node, looked up by name
LoaderMakeNodes ==
    /\ loader_pc = "make_nodes"
    /\ nodes' = [name \in Range(scene.mNodeNames) |->
                    CHOOSE o \in DOMAIN scene.mNodeNames :
                        scene.mNodeNames[o] = name]
    /\ nodes_per_mesh_id' =
           [k \in 0..(Len(scene.mMeshes) - 1) |->
               Ascending({o \in DOMAIN scene.mNodeNames :
                             k \in Range(scene.mNodeMeshes[o])})]
    /\ ld_children' =
           [o \in DOMAIN scene.mNodeNames |->
               IF o = 1 THEN [i \in 1..(Len(scene.mNodeNames) - 1) |-> i + 1]
               ELSE <<>>]
    /\ loader_pc' = "skin"
    /\ UNCHANGED <<scene, mesh_id, v_bone, ld_bone_nodes, ld_bone_offsets,
                   drawables, returned>>
    /\ UNCHANGED <<kfVars, sceneVars>>

\* another line 797: nodes.get(bone.mName), which never raises
BoneNodesNeverRaises(mesh) == ""

\* line 797: nodes[bone.mName] of a name that is no key of nodes
BoneNodesRaises(mesh) ==
    IF \E b \in 0..(mesh.mNumBones - 1) : BoneName(b) \notin DOMAIN nodes
    THEN "KeyError" ELSE ""

\* line 797: [nodes[bone.mName] for bone in mesh.mBones]; 0 stands for the
\* None a lookup without KeyError would give
BoneNodes(mesh) ==
    [b \in 1..mesh.mNumBones |->
        IF BoneName(b - 1) \in DOMAIN nodes THEN nodes[BoneName(b - 1)]
        ELSE 0]

\* lines 784-802: one iteration of the first loop over scene.mMeshes, up to
\* the exception if it raises one
LoaderSkinMesh ==
    /\ loader_pc = "skin"
    /\ mesh_id + 1 < Len(scene.mMeshes)
    /\ mesh_id' = mesh_id + 1
    /\ LET mesh == scene.mMeshes[mesh_id' + 1]
       IN  /\ v_bone' = VBone(mesh)
           /\ IF BoneNodesRaises(mesh) # ""
              THEN /\ loader_pc' = BoneNodesRaises(mesh)
                   /\ UNCHANGED <<ld_bone_nodes, ld_bone_offsets>>
              ELSE /\ loader_pc' = loader_pc
                   /\ ld_bone_nodes' = BoneNodes(mesh)
                   /\ ld_bone_offsets' =
                          [b \in 1..mesh.mNumBones |-> Offset(b - 1)]
    /\ UNCHANGED <<scene, nodes, nodes_per_mesh_id, ld_children, drawables,
                   returned>>
    /\ UNCHANGED <<kfVars, sceneVars>>

\* the first loop is over
LoaderSkinDone ==
    /\ loader_pc = "skin"
    /\ mesh_id + 1 >= Len(scene.mMeshes)
    /\ loader_pc' = "build"
    /\ UNCHANGED <<scene, nodes, mesh_id, v_bone, ld_bone_nodes,
                   ld_bone_offsets, nodes_per_mesh_id, ld_children, drawables,
                   returned>>
    /\ UNCHANGED <<kfVars, sceneVars>>

\* lines 805-820: the only iteration of the second loop over scene.mMeshes,
\* which ends with `return meshes`: a drawable is built for the first mesh
\* from the v_bone, bone_nodes and bone_offsets the first loop left, and added
\* to the nodes holding the mesh the first loop ended with; meshes is empty,
\* its append being commented out
LoaderBuildMesh ==
    /\ loader_pc = "build"
    /\ scene.mMeshes # <<>>
    /\ LET new_id == Len(scene.mNodeNames) + Len(drawables) + 1
       IN  /\ drawables' = Append(drawables,
                               [id           |-> new_id,
                                mesh         |-> 0,
                                v_bone       |-> v_bone,
                                bone_nodes   |-> ld_bone_nodes,
                                bone_offsets |-> ld_bone_offsets])
           /\ ld_children' =
                  [o \in DOMAIN ld_children |->
                      ld_children[o] \o
                      [j \in 1..Cardinality(
                                    {i \in DOMAIN nodes_per_mesh_id[mesh_id] :
                                        nodes_per_mesh_id[mesh_id][i] = o}) |->
                          new_id]]
    /\ returned' = <<>>
    /\ loader_pc' = "returned"
    /\ UNCHANGED <<scene, nodes, mesh_id, v_bone, ld_bone_nodes,
                   ld_bone_offsets, nodes_per_mesh_id>>
    /\ UNCHANGED <<kfVars, sceneVars>>

\* line 822: return [root_node], reached when scene.mMeshes is empty
LoaderReturnRoot ==
    /\ loader_pc = "build"
    /\ scene.mMeshes = <<>>
    /\ returned' = <<1>>
    /\ loader_pc' = "returned"
    /\ UNCHANGED <<scene, nodes, mesh_id, v_bone, ld_bone_nodes,
                   ld_bone_offsets, nodes_per_mesh_id, ld_children, drawables>>
    /\ UNCHANGED <<kfVars, sceneVars>>

NextLoader ==
    \/ LoaderMakeNodes
    \/ LoaderSkinMesh
    \/ LoaderSkinDone
    \/ LoaderBuildMesh
    \/ LoaderReturnRoot

SpecLoader == InitLoader /\ [][NextLoader]_vars

-----------------------------------------------------------------------------
(* Properties of KeyFrames.value and TransformKeyFrames.value *)

StrictlyIncreasing(times) ==
    \A i \in 1..(Len(times) - 1) : times[i] < times[i + 1]

\* C4: for a keyframe set with times t0 < ... < tN, value(t) is the first
\* value for every t <= t0 and the last value for every t >= tN.
C4_BoundaryClamp ==
    (called /\ kf # NoKeyFrames /\ StrictlyIncreasing(kf.times)) =>
        /\ arg_time <= kf.times[1] => result = kf.values[1]
        /\ arg_time >= kf.times[Len(kf.times)] =>
               result = kf.values[Len(kf.values)]

\* value() was called beyond the last of several keyframes, whose value is
\* not the first one
C4_Witness ==
    /\ called /\ kf # NoKeyFrames /\ StrictlyIncreasing(kf.times)
    /\ Len(kf.times) = 3
    /\ arg_time > kf.times[3]
    /\ kf.values[3] # kf.values[1] /\ kf.values[3] # kf.values[2]
    /\ result = kf.values[3]

\* C5: for strictly increasing times, value(ti) is exactly valuei at every
\* keyframe index i, interior ones included.
C5_ExactHit ==
    (called /\ kf # NoKeyFrames /\ StrictlyIncreasing(kf.times)) =>
        \A i \in DOMAIN kf.times :
            arg_time = kf.times[i] => result = kf.values[i]

\* value() was called at the time of an interior keyframe whose value differs
\* from both neighbours'
C5_Witness ==
    /\ called /\ kf # NoKeyFrames /\ StrictlyIncreasing(kf.times)
    /\ Len(kf.times) = 3
    /\ arg_time = kf.times[2]
    /\ kf.values[2] # kf.values[1] /\ kf.values[2] # kf.values[3]
    /\ result = kf.values[2]

\* C6: for ti < t < ti+1 the linear blend returns
\* valuei + f * (valuei+1 - valuei) with f = (t - ti) / (ti+1 - ti)
\* (stated with the division cleared, component by component).
C6_LinearSegment ==
    (called /\ kf # NoKeyFrames /\ StrictlyIncreasing(kf.times)) =>
        \A i \in 1..(Len(kf.times) - 1) :
            (kf.times[i] < arg_time /\ arg_time < kf.times[i + 1]) =>
                /\ DOMAIN result = DOMAIN kf.values[i]
                /\ \A k \in DOMAIN result :
                      result[k] * (kf.times[i + 1] - kf.times[i])
                        = kf.values[i][k] * (kf.times[i + 1] - kf.times[i])
                          + (arg_time - kf.times[i])
                              * (kf.values[i + 1][k] - kf.values[i][k])

\* value() was called a third of the way between two keyframes with different
\* values
C6_Witness ==
    /\ called /\ kf # NoKeyFrames /\ StrictlyIncreasing(kf.times)
    /\ \E i \in 1..(Len(kf.times) - 1) :
          /\ kf.times[i + 1] - kf.times[i] = 3
          /\ arg_time = kf.times[i] + 1
          /\ kf.values[i] = <<One, 0>> /\ kf.values[i + 1] = <<0, 2 * One>>
          /\ result = <<One - One \div 3, (2 * One) \div 3>>

\* the image of the point p under the affine matrix m
Apply(m, p) == <<m[1] * p[1] + m[2] * p[2] + m[5],
                 m[3] * p[1] + m[4] * p[2] + m[6]>>

\* p turned by q quarter turns
Turn(q, p) ==
    LET k == q % 4
    IN  CASE k = 0 -> p
          [] k = 1 -> <<0 - p[2], p[1]>>
          [] k = 2 -> <<0 - p[1], 0 - p[2]>>
          [] k = 3 -> <<p[2], 0 - p[1]>>

\* three affinely independent points: an affine map is fixed by their images
CanonicalPoints == {<<0, 0>>, <<1, 0>>, <<0, 1>>}

\* C7: TransformKeyFrames.value(t) is T @ R @ S of the three tracks, each
\* evaluated at the same t: it scales a point first, then rotates it, then
\* translates it.
C7_ComposeTRS ==
    (called /\ tkf # NoTransform) =>
        LET tv == KeyFramesValue(tkf.translate_keys, arg_time)
            rq == KeyFramesValue(tkf.rotate_keys, arg_time)
            sv == KeyFramesValue(tkf.scale_keys, arg_time)
        IN  \A p \in CanonicalPoints :
                LET scaled == <<sv[1] * p[1], sv[2] * p[2]>>
                    turned == Turn(rq[1], scaled)
                IN  Apply(result, p) = <<turned[1] + tv[1], turned[2] + tv[2]>>

\* value() was called strictly inside the time domains of three tracks with
\* different numbers of keys, where the rotation is an odd number of quarter
\* turns, the scale is not uniform and the translation is not zero
C7_Witness ==
    /\ called /\ tkf # NoTransform
    /\ Len(tkf.translate_keys.times) = 1
    /\ Len(tkf.rotate_keys.times) = 2
    /\ Len(tkf.scale_keys.times) = 3
    /\ tkf.rotate_keys.times[1] < arg_time
    /\ arg_time < tkf.rotate_keys.times[2]
    /\ tkf.scale_keys.times[1] < arg_time
    /\ arg_time < tkf.scale_keys.times[3]
    /\ KeyFramesValue(tkf.rotate_keys, arg_time)[1] % 2 = 1
    /\ KeyFramesValue(tkf.translate_keys, arg_time) # <<0, 0>>
    /\ result[1] = 0 /\ result[2] # 0 /\ result[3] # 0
    /\ result[2] # 0 - result[3] /\ result[5] # 0

-----------------------------------------------------------------------------
(* Properties of the constructors *)

\* the sub-tracks of a TransformKeyFrames object
SubTracks(t) == {t.translate_keys, t.rotate_keys, t.scale_keys}

\* C11: constructing a TransformKeyFrames with an empty translation, rotation
\* or scale key set fails at construction; no TransformKeyFrames object with
\* an empty sub-track exists, whoever constructs it, and value() never meets
\* an empty keyframe set.
C11_EmptyTrackFailsAtConstruction ==
    /\ (built = "TransformKeyFrames" /\ \E i \in DOMAIN arg_lens :
                                            arg_lens[i] = 0) =>
           raised = "ValueError" /\ tkf = NoTransform /\ ~called
    /\ tkf # NoTransform =>
           \A k \in SubTracks(tkf) : Len(k.times) > 0 /\ Len(k.values) > 0
    /\ called => result # IndexError

\* TransformKeyFrames was called with keys for the translation and none for
\* the rotation, and raised
C11_Witness ==
    /\ built = "TransformKeyFrames"
    /\ arg_lens[1] > 0 /\ arg_lens[2] = 0 /\ arg_lens[3] > 0
    /\ raised = "ValueError"
    /\ tkf = NoTransform

\* C17: KeyFrames construction rejects pairs whose times are not strictly
\* increasing after sorting, so every constructed keyframe set has strictly
\* increasing times.
C17_EqualTimesAreRejected ==
    (built = "KeyFrames" /\ raised = "") => StrictlyIncreasing(kf.times)

\* C12, the construction it states: a SkinningControlNode built with no track
\* (no positional argument, or None for the keys) is constructed, and holds
\* no keyframes.
C12_NoTrackNodeIsConstructed ==
    (built = "SkinningControlNode" /\ arg_lens \in {<<>>, <<0 - 1>>}) =>
        raised = "" /\ tkf = NoTransform

-----------------------------------------------------------------------------
(* Properties of the traversal *)

\* the node whose children list holds o
ParentOf(o) ==
    CHOOSE p \in {Viewer} \cup Objects :
        \E i \in DOMAIN children[p] : children[p][i] = o

\* the objects in the order a traversal from the viewer visits them
RECURSIVE PreOrderList(_)
PreOrderList(todo) ==
    IF todo = <<>> THEN <<>>
    ELSE <<todo[1]>> \o PreOrderList(children[todo[1]] \o Tail(todo))

PreOrder == PreOrderList(<<Viewer>>)

\* b is visited before d by every traversal
Precedes(b, d) ==
    LET order == PreOrder
    IN  \E i \in DOMAIN order : \E j \in DOMAIN order :
            i < j /\ order[i] = b /\ order[j] = d

\* the nodes from the viewer down to o, o included
RECURSIVE PathTo(_)
PathTo(o) == IF o = Viewer THEN <<Viewer>> ELSE PathTo(ParentOf(o)) \o <<o>>

\* m @ L1 @ ... @ Ln for the local transforms the nodes of path hold now
RECURSIVE Compose(_, _)
Compose(m, path) ==
    IF path = <<>> THEN m
    ELSE Compose(MatMul(m, transform[path[1]]), Tail(path))

\* a skinned mesh draw has just run
JustDrawn(d) == last_drawn = d /\ d \in Objects /\ kinds[d] = MeshKind

\* C1: when a skinned drawable is drawn in frame k, every bone node that
\* precedes it in the pre-order traversal was drawn in frame k, holds
\* parentWorld @ transform of frame k as its world_transform, and that is
\* the matrix the drawable uses.
C1_EarlierBonesAreFresh ==
    \A d \in Objects : JustDrawn(d) =>
        \A i \in DOMAIN bone_nodes[d] :
            LET b == bone_nodes[d][i]
            IN  Precedes(b, d) =>
                    /\ \A a \in Range(PathTo(b)) \ {Viewer} :
                           visited_in[a] = frame
                    /\ world_transform[b] = Compose(identity, PathTo(b))
                    /\ gl_uniforms.bone_matrix[i] =
                           MatMul(Compose(identity, PathTo(b)), Offset(i))

\* in the second frame a drawable is drawn after an animated bone that is not
\* one of its ancestors, and the bone's world transform is no longer the one
\* the first frame left
C1_Witness ==
    \E d \in Objects :
        /\ JustDrawn(d) /\ frame = 2
        /\ \E i \in DOMAIN bone_nodes[d] :
              LET b == bone_nodes[d][i]
              IN  /\ Precedes(b, d)
                  /\ b \notin Range(PathTo(d))
                  /\ keyframes[b] # NoTransform
                  /\ world_transform[b] # frame_start_world[b]
                  /\ gl_uniforms.bone_matrix[i] =
                         MatMul(world_transform[b], Offset(i))

\* C2: a drawable reached through the chain N1..Nn receives M @ L1 @ ... @ Ln,
\* M being the model matrix N1 was drawn with, for every node N1 above it (the
\* viewer, drawn with the identity, included); below a node whose transform
\* is the identity it receives that node's M unchanged.
C2_ModelIsChainProduct ==
    \A d \in Objects : JustDrawn(d) =>
        LET path == PathTo(d)
            n    == Len(path) - 1
        IN  /\ gl_uniforms.model = Compose(identity, SubSeq(path, 1, n))
            /\ \A j \in 1..n :
                  gl_uniforms.model =
                      Compose(recv_model[path[j]], SubSeq(path, j, n))
            /\ transform[path[n]] = identity =>
                  gl_uniforms.model = recv_model[path[n]]

\* a drawable is drawn below a chain of three nodes A, B, C, none with the
\* identity as its transform, and receives a matrix that is neither A @ B nor
\* B @ C
C2_Witness ==
    \E d \in Objects :
        /\ JustDrawn(d)
        /\ PathTo(d) = <<Viewer, 1, 2, 3, d>>
        /\ \A o \in 1..3 : transform[o] # identity
        /\ gl_uniforms.model =
               MatMul(MatMul(transform[1], transform[2]), transform[3])
        /\ gl_uniforms.model # MatMul(transform[1], transform[2])
        /\ gl_uniforms.model # MatMul(transform[2], transform[3])

\* C3: a skinned drawable uploads one matrix per bone, bone_matrix[i] being
\* bone_nodes[i].world_transform @ bone_offsets[i], with the offset given at
\* construction and the world transform the bone node holds at that moment.
C3_BoneMatrixIsWorldTimesOffset ==
    \A d \in Objects : JustDrawn(d) =>
        /\ DOMAIN gl_uniforms.bone_matrix = DOMAIN bone_nodes[d]
        /\ \A i \in DOMAIN bone_nodes[d] :
              gl_uniforms.bone_matrix[i] =
                  MatMul(world_transform[bone_nodes[d][i]], Offset(i))

\* a drawable with two bones is drawn while both bones hold world transforms
\* that do not commute with their offsets
C3_Witness ==
    \E d \in Objects :
        /\ JustDrawn(d)
        /\ Len(bone_nodes[d]) = 2
        /\ \A i \in 1..2 :
              LET w == world_transform[bone_nodes[d][i]]
              IN  /\ MatMul(w, Offset(i)) # MatMul(Offset(i), w)
                  /\ gl_uniforms.bone_matrix[i] = MatMul(w, Offset(i))

\* the objects below o in the tree
RECURSIVE Descendants(_)
Descendants(o) ==
    UNION {{children[o][i]} \cup Descendants(children[o][i]) :
              i \in DOMAIN children[o]}

\* how many times o occurs in the list s
Count(s, o) == Cardinality({i \in DOMAIN s : s[i] = o})

\* on_key has just dispatched a key
KeyDispatched == key_calls # <<>>

\* C13: key_handler passes the key on to every child, recursively: every
\* descendant that has a key_handler gets the key exactly once, parents
\* before children; a child without one (a skinned mesh) is skipped without
\* error and the siblings after it still get the key.
C13_KeyReachesEveryDescendantOnce ==
    KeyDispatched =>
        /\ Count(key_calls, Viewer) = 1
        /\ \A o \in Descendants(Viewer) :
              Count(key_calls, o) = IF HasKeyHandler(o) THEN 1 ELSE 0
        /\ \A o \in Objects \ Descendants(Viewer) : Count(key_calls, o) = 0
        /\ \A i, j \in DOMAIN key_calls :
              key_calls[j] \in Descendants(key_calls[i]) => i < j

\* a key was dispatched in a tree where a mesh comes before a sibling node
\* that has a child node, and both nodes got the key
C13_Witness ==
    /\ KeyDispatched
    /\ \E p \in Objects : \E i, j \in DOMAIN children[p] :
          /\ i < j
          /\ kinds[children[p][i]] = MeshKind
          /\ kinds[children[p][j]] = SkinKind
          /\ \E c \in Range(children[children[p][j]]) :
                /\ kinds[c] = SkinKind
                /\ Count(key_calls, c) = 1
          /\ Count(key_calls, children[p][j]) = 1

\* C15: the time animated nodes read never decreases from one frame to the
\* next: whenever a node evaluates its keyframes again, the time it uses is
\* not smaller than the time it used the last time, whatever frames and key
\* events came in between.
C15_TimeNeverDecreases ==
    [][\A o \in Objects :
          (eval_time[o] # NoDraw /\ eval_time'[o] # eval_time[o]) =>
              eval_time'[o] > eval_time[o]]_vars

\* the model matrix the draw of o that has just been entered received
Received(o) ==
    IF kinds[o] = MeshKind THEN gl_uniforms.model ELSE recv_model[o]

\* C18: SkinningControlNode.draw recomputes the node's transform from its
\* keyframes (if it has any), then stores world_transform = model @ transform,
\* and then draws its children: when the draw of a node is entered it holds
\* the recomputed transform and the product, and when the draw of a child of
\* a skinning node is entered the child has received the world_transform its
\* parent stored in this frame.
C18_ChildrenReceiveStoredWorld ==
    \A o \in Objects : last_drawn = o =>
        /\ kinds[o] = SkinKind =>
              /\ keyframes[o] # NoTransform =>
                    transform[o] =
                        TransformKeyFramesValue(keyframes[o], eval_time[o])
              /\ world_transform[o] = MatMul(recv_model[o], transform[o])
        /\ ParentOf(o) # Viewer =>
              /\ visited_in[ParentOf(o)] = frame
              /\ Received(o) = world_transform[ParentOf(o)]

\* in the second frame the draw of a child is entered below an animated node
\* that is itself below a node with a transform, and the parent holds another
\* world transform than in the first frame
C18_Witness ==
    \E o \in Objects :
        /\ last_drawn = o /\ frame = 2
        /\ Len(PathTo(o)) = 4
        /\ LET parent == ParentOf(o)
           IN  /\ keyframes[parent] # NoTransform
               /\ recv_model[parent] # identity
               /\ world_transform[parent] # frame_start_world[parent]
               /\ world_transform[parent] # transform[parent]
               /\ MatMul(recv_model[parent], transform[parent])
                      # MatMul(transform[parent], recv_model[parent])
               /\ Received(o) = world_transform[parent]

\* s is the beginning of t
IsPrefix(s, t) == Len(s) <= Len(t) /\ s = SubSeq(t, 1, Len(s))

\* C19: one draw call on the root of the tree terminates, and during it the
\* draw of every node and drawable of the tree is entered exactly once,
\* parents before their children and siblings in the order of the children
\* list (the order in which the constructor and the add calls put them
\* there): the draws entered so far are the beginning of the pre-order list
\* of the tree, and all of it when the call has returned.
C19_DrawVisitsTreeOnceInOrder ==
    /\ [](frame > 0 =>
            /\ IsPrefix(draw_calls, PreOrder)
            /\ stack = <<>> => draw_calls = PreOrder)
    /\ (stack # <<>>) ~> (stack = <<>> /\ draw_calls = PreOrder)

\* the draw call has returned in a tree where a node with a child comes
\* before a sibling: the child was drawn before the sibling
C19_Witness ==
    /\ frame = 1 /\ stack = <<>>
    /\ children[Root] = <<2, 3>>
    /\ children[2] = <<4>>
    /\ draw_calls = <<Viewer, 1, 2, 4, 3>>

\* C8: when a skinned drawable is drawn in frame k before one of its bone
\* nodes (or the bone node is in no tree), the draw completes and uses the
\* world transform the bone node kept from the earlier frames, the identity
\* if the bone node was never drawn.
C8_LaterBonesAreStale ==
    \A d \in Objects : JustDrawn(d) =>
        /\ gl_uniforms.mesh = d
        /\ \A i \in DOMAIN bone_nodes[d] :
              LET b == bone_nodes[d][i]
              IN  visited_in[b] # frame =>
                      gl_uniforms.bone_matrix[i] =
                          MatMul(IF visited_in[b] = 0 THEN identity
                                 ELSE frame_start_world[b], Offset(i))

\* in the second frame a drawable is drawn before one of its bones, which
\* still holds the world transform of the first frame, not the identity
C8_Witness ==
    \E d \in Objects :
        /\ JustDrawn(d) /\ frame = 2
        /\ \E i \in DOMAIN bone_nodes[d] :
              LET b == bone_nodes[d][i]
              IN  /\ Precedes(d, b)
                  /\ visited_in[b] = 1
                  /\ frame_start_world[b] # identity
                  /\ gl_uniforms.bone_matrix[i] =
                         MatMul(frame_start_world[b], Offset(i))


-----------------------------------------------------------------------------
(* Properties of the per-vertex bone entries of the loader *)

\* the first loop has converted a mesh
Converted == loader_pc \notin {"unused", "make_nodes"} /\ mesh_id # NoDraw

\* the mesh the first loop converted last
CurrentMesh == scene.mMeshes[mesh_id + 1]

\* the bones of the mesh that influence vertex v
Influences(mesh, v) ==
    {b \in DOMAIN mesh.mWeights : mesh.mWeights[b][v] > 0}

\* those among the first MAX_BONES bones of the mesh
InfluencesWithin(mesh, v) ==
    {b \in Influences(mesh, v) : b < MAX_BONES}

\* the positions of the entries that are no padding
Kept(entries) == {i \in DOMAIN entries : entries[i][1] > 0}

\* entries holds the highest-weight contributions of the bones cand to vertex
\* v, as many as fit, and zero-weight padding in the places left
HoldsHighest(entries, cand, mesh, v) ==
    /\ Len(entries) = MAX_VERTEX_BONES
    /\ Cardinality(Kept(entries)) = Min(MAX_VERTEX_BONES, Cardinality(cand))
    /\ \A i \in Kept(entries) :
          /\ entries[i][2] \in cand
          /\ entries[i][1] = mesh.mWeights[entries[i][2]][v]
    /\ \A i, j \in Kept(entries) : i # j => entries[i][2] # entries[j][2]
    /\ \A b \in cand \ {entries[i][2] : i \in Kept(entries)} :
          \A i \in DOMAIN entries : mesh.mWeights[b][v] <= entries[i][1]

-----------------------------------------------------------------------------
(* Properties of the scene assembly of the loader *)

\* the mesh names a bone that is no key of nodes
MissingBone(mesh) ==
    \E b \in 0..(mesh.mNumBones - 1) : BoneName(b) \notin DOMAIN nodes

\* C14: if a mesh names a bone absent from the name -> node map the loader
\* fails in the iteration of that mesh, before any drawable is built, and no
\* drawable ever holds a bone_nodes entry that is not a node of the map.
C14_MissingBoneFailsFast ==
    /\ (Converted /\ MissingBone(CurrentMesh)) =>
           /\ loader_pc = "KeyError"
           /\ drawables = <<>>
    /\ (/\ loader_pc # "make_nodes"
        /\ \E k \in DOMAIN scene.mMeshes : MissingBone(scene.mMeshes[k])) =>
           drawables = <<>> /\ loader_pc # "returned"
    /\ \A d \in DOMAIN drawables :
           \A b \in DOMAIN drawables[d].bone_nodes :
               /\ drawables[d].bone_nodes[b] \in Range(nodes)
               /\ nodes[BoneName(b - 1)] = drawables[d].bone_nodes[b]

\* the second mesh of a scene names a bone without node, the first does not,
\* and the loader has failed at the second
C14_Witness ==
    /\ loader_pc = "KeyError"
    /\ mesh_id = 1
    /\ ~MissingBone(scene.mMeshes[1])
    /\ MissingBone(scene.mMeshes[2])
    /\ drawables = <<>>


\* the places (parent, position) where o occurs in a children list
Places(o) ==
    UNION {{<<p, i>> : i \in {j \in DOMAIN ld_children[p] :
                                 ld_children[p][j] = o}} :
              p \in DOMAIN ld_children}

\* the objects reached from o by at most n steps down the children lists
RECURSIVE Below(_, _)
Below(o, n) ==
    IF n = 0 \/ o \notin DOMAIN ld_children THEN {}
    ELSE UNION {{ld_children[o][i]} \cup Below(ld_children[o][i], n - 1) :
                   i \in DOMAIN ld_children[o]}

\* the objects the loader has built: its nodes and its drawables
Built == DOMAIN ld_children \cup {drawables[d].id : d \in DOMAIN drawables}

\* C16: after the Node constructions and Node.add calls of the loader the
\* scene graph is a tree: every node or drawable other than the root is in
\* the children list of exactly one parent, exactly once, and no node is its
\* own descendant.
C16_SceneGraphIsTree ==
    loader_pc \notin {"unused", "make_nodes"} =>
        /\ \A o \in Built \ {1} : Cardinality(Places(o)) = 1
        /\ Places(1) = {}
        /\ \A o \in Built : o \notin Below(o, Cardinality(Built))


\* C20: every drawable the loader builds for a mesh carries the bone_nodes,
\* bone_offsets and per-vertex (weight, id) entries derived from the bone list
\* of that mesh: the two lists have the length of the bone list, and a bone
\* id stored on a vertex with a weight denotes a bone of that mesh with that
\* weight on the vertex; also when the scene has several meshes.
C20_DrawableCarriesItsOwnBones ==
    \A d \in DOMAIN drawables :
        LET mesh == scene.mMeshes[drawables[d].mesh + 1]
        IN  /\ Len(drawables[d].bone_nodes) = Len(drawables[d].bone_offsets)
            /\ Len(drawables[d].bone_nodes) = mesh.mNumBones
            /\ drawables[d].bone_nodes = BoneNodes(mesh)
            /\ DOMAIN drawables[d].v_bone = 0..(mesh.mNumVertices - 1)
            /\ \A v \in DOMAIN drawables[d].v_bone :
                  \A k \in Kept(drawables[d].v_bone[v]) :
                      LET entry == drawables[d].v_bone[v][k]
                      IN  /\ entry[2] < mesh.mNumBones
                          /\ entry[2] \in DOMAIN mesh.mWeights
                          /\ mesh.mWeights[entry[2]][v] = entry[1]


\* the nodes whose mesh list names mesh k (0-based), as make_nodes recorded
Holders(k) ==
    IF k \in DOMAIN nodes_per_mesh_id THEN Range(nodes_per_mesh_id[k]) ELSE {}

\* C21: when the loader returns, it returns a list containing the root node
\* of the hierarchy it built, whether the scene has zero, one or several
\* meshes, and every mesh has a drawable that is a child of each node
\* holding that mesh.
C21_ReturnsRootWithEveryDrawable ==
    loader_pc = "returned" =>
        /\ 1 \in Range(returned)
        /\ \A k \in DOMAIN scene.mMeshes :
               \E d \in DOMAIN drawables :
                   /\ drawables[d].mesh = k - 1
                   /\ \A o \in Holders(k - 1) :
                          drawables[d].id \in Range(ld_children[o])


(* Properties of the index and the fraction of KeyFrames.value *)

\* the times are in ascending order, equal neighbours allowed
Sorted(times) ==
    \A i \in 1..(Len(times) - 1) : times[i] <= times[i + 1]

\* value() was called with a time strictly between the first and the last
\* keyframe time
CalledInside ==
    /\ called /\ kf # NoKeyFrames /\ Sorted(kf.times)
    /\ kf.times[1] < arg_time
    /\ arg_time < kf.times[Len(kf.times)]

\* C22: for sorted times, equal ones included, and times[0] < t < times[last]
\* the index i of value() has 1 <= i <= last and times[i-1] < t <= times[i];
\* the divisor times[i] - times[i-1] is positive, the fraction f is in
\* (0, 1], and the call ends with neither a division by zero nor an index
\* outside the lists.
C22_IndexAndFractionInRange ==
    CalledInside =>
        LET last          == Len(kf.times) - 1
            T(i)          == kf.times[i + 1]
            index_closest == bisect_left(kf.times, arg_time)
            f             == Fraction(kf, arg_time, index_closest)
        IN  /\ 1 <= index_closest /\ index_closest <= last
            /\ T(index_closest - 1) < arg_time
            /\ arg_time <= T(index_closest)
            /\ T(index_closest) - T(index_closest - 1) > 0
            /\ f # ZeroDivisionError
            /\ 0 < f[1] /\ f[1] <= One
            /\ result # ZeroDivisionError /\ result # IndexError
            /\ result = Blend(kf, index_closest, f[1])

\* value() was called between two equal times at the start and a later time,
\* and returned the blend of the second and third values
C22_Witness ==
    /\ CalledInside
    /\ kf.times = <<0, 0, 2>>
    /\ arg_time = 1
    /\ kf.values[2] = <<One, 0>> /\ kf.values[3] = <<0, 2 * One>>
    /\ result = <<One \div 2, One>>

=============================================================================
